---- MODULE Spec2Model ----
(***************************************************************************)
(* Model of waflib/Tools/qt5.py: the qxx compiled-source task, its dynamic *)
(* discovery of moc tasks (runnable_status / add_moc_tasks /               *)
(* create_moc_task), the build-wide moc_cache and the injection of new     *)
(* tasks into the producer's outstanding queue.                            *)
(*                                                                         *)
(* File names are sequences of dot-separated segments: "foo.cpp" is        *)
(* <<"foo", "cpp">>.  A node is a record [dir, name].                      *)
(***************************************************************************)
EXTENDS Integers, Sequences, FiniteSets, TLC

\* ------------------------------------------------------------------ bounds

\* longest raw dependency list of one qxx task
MaxDeps == 2

\* ------------------------------------------------------- names and nodes

\* MOC_H = ['.h', '.hpp', '.hxx', '.hh']
MOC_H == <<"h", "hpp", "hxx", "hh">>

\* the value None of a node lookup
None == [dir |-> "", name |-> <<>>]

\* the files of the source tree
Files ==
    { [dir |-> "d1",  name |-> <<"foo", "cpp">>],
      [dir |-> "d1",  name |-> <<"bar", "cpp">>],
      [dir |-> "d1",  name |-> <<"foo", "h">>],
      [dir |-> "d1",  name |-> <<"foo", "hpp">>],
      [dir |-> "d2",  name |-> <<"qux", "cpp">>],
      [dir |-> "d2",  name |-> <<"win", "hpp">>],
      [dir |-> "inc", name |-> <<"win", "h">>],
      [dir |-> "inc", name |-> <<"zed", "hh">>] }

\* Node.find_node(name) on a directory node of a tree holding files: the file
\* if it exists, else None
find_node_in(files, dir, name) ==
    IF [dir |-> dir, name |-> name] \in files
    THEN [dir |-> dir, name |-> name]
    ELSE None

\* Node.find_node(name) in the source tree of the build
find_node(dir, name) == find_node_in(Files, dir, name)

\* name[:name.rfind('.')] for a name containing a dot
rfind_prefix(name) == SubSeq(name, 1, Len(name) - 1)

\* Node.change_ext(ext): replace what follows the last dot, same directory
change_ext(node, ext) ==
    [dir  |-> node.dir,
     name |-> IF Len(node.name) >= 2
              THEN Append(rfind_prefix(node.name), ext)
              ELSE Append(node.name, ext)]

\* d.endswith('.moc')
endswith_moc(d) == Len(d) >= 2 /\ d[Len(d)] = "moc"

\* d[:-4] for a name ending in '.moc'
strip_moc(d) == SubSeq(d, 1, Len(d) - 1)

\* ------------------------------------------------------ the build's tasks

QXX == { <<"qxx", 1>>, <<"qxx", 2>>, <<"qxx", 3>> }

\* a task created before the build started that every qxx task runs after
\* (a ui5 task: ext_out = ['.h'])
UiTask == <<"ui5", 1>>

Generators == {"g1", "g2"}

\* self.inputs[0] of each qxx task
inputs0(t) ==
    CASE t = <<"qxx", 1>> -> [dir |-> "d1", name |-> <<"bar", "cpp">>]
      [] t = <<"qxx", 2>> -> [dir |-> "d1", name |-> <<"foo", "cpp">>]
      [] t = <<"qxx", 3>> -> [dir |-> "d2", name |-> <<"qux", "cpp">>]

\* self.generator of each qxx task
generator(t) ==
    CASE t = <<"qxx", 1>> -> "g1"
      [] t = <<"qxx", 2>> -> "g1"
      [] t = <<"qxx", 3>> -> "g2"

\* self.generator.includes_nodes, in declared order
includes_nodes(g) ==
    CASE g = "g1" -> <<"inc">>
      [] g = "g2" -> <<"inc", "d1">>

\* the names the scanner may have left in bld.raw_deps[self.uid()]
DepNames(t) ==
    CASE t = <<"qxx", 1>> -> { <<"foo", "moc">>, <<"win", "moc">> }
      [] t = <<"qxx", 2>> -> { <<"foo", "moc">>, <<"gone", "moc">> }
      [] t = <<"qxx", 3>> -> { <<"foo", "moc">>, <<"foo", "h">> }

\* sequences over S of length at most n
RECURSIVE SeqsUpTo(_, _)
SeqsUpTo(S, n) ==
    IF n = 0 THEN { <<>> }
    ELSE LET shorter == SeqsUpTo(S, n - 1)
         IN shorter \cup { Append(s, x) : s \in shorter, x \in S }

\* the lists bld.raw_deps may hold for the task t: qux.cpp includes foo.h and
\* foo.moc, the other two sources include any names of theirs
RawDepsOf(t) ==
    IF t = <<"qxx", 3>>
    THEN { << <<"foo", "h">>, <<"foo", "moc">> >> }
    ELSE SeqsUpTo(DepNames(t), MaxDeps)

RawDeps == UNION { RawDepsOf(t) : t \in QXX }

\* Task.ASK_LATER, Task.RUN_ME, Task.SKIP_ME
ASK_LATER == "ASK_LATER"
RUN_ME == "RUN_ME"
SKIP_ME == "SKIP_ME"

\* Task.NOT_RUN, Task.SUCCESS, Task.SKIPPED
NOT_RUN == "NOT_RUN"
SUCCESS == "SUCCESS"
SKIPPED == "SKIPPED"

VARIABLES
    raw_deps,     \* bld.raw_deps: qxx task -> list of names found by the scan
    moc_cache,    \* bld.moc_cache: header node -> moc task
    mocs,         \* the moc tasks created so far; task <<"moc", i>> is mocs[i]
    outstanding,  \* bld.producer.outstanding
    total,        \* bld.producer.total
    gen_tasks,    \* generator.tasks
    run_after,    \* qxx task -> set of tasks
    moc_done,     \* qxx task -> 0 or 1
    cache_sig,    \* qxx task -> whether the attribute cache_sig is set
    moc_flags,    \* qxx task -> env['MOC_FLAGS'] of the task's environment
    hasrun,       \* task -> NOT_RUN, SUCCESS or SKIPPED
    frozen,       \* tasks the producer postponed after ASK_LATER
    running,      \* tasks handed to a consumer and not yet finished
    error,        \* <<>>, or <<[task, d]>> once WafError was raised
    scans,        \* qxx task -> number of add_moc_tasks calls so far
    resolved,     \* qxx task -> the header nodes its scans resolved so far
    lastq         \* the last call of runnable_status or create_moc_task

vars == << raw_deps, moc_cache, mocs, outstanding, total, gen_tasks, run_after,
           moc_done, cache_sig, moc_flags, hasrun, frozen, running, error,
           scans, resolved, lastq >>


\* the build state the methods of qxx read and write, as one record
State ==
    [moc_cache |-> moc_cache, mocs |-> mocs, outstanding |-> outstanding,
     total |-> total, gen_tasks |-> gen_tasks, run_after |-> run_after,
     moc_done |-> moc_done, cache_sig |-> cache_sig, moc_flags |-> moc_flags,
     hasrun |-> hasrun, scans |-> scans, resolved |-> resolved,
     calls |-> <<>>]

\* what one call of a method can change, seen from the calling task t
Snap(S, t) ==
    [moc_cache |-> S.moc_cache, mocs |-> S.mocs, outstanding |-> S.outstanding,
     total |-> S.total, gen_tasks |-> S.gen_tasks, run_after |-> S.run_after[t],
     moc_done |-> S.moc_done[t], cache_sig |-> S.cache_sig[t],
     scans |-> S.scans[t]]

\* ---------------------------------------------------------------- qt5.py

\* ConfigSet.append_unique(var, val)
append_unique(lst, x) ==
    IF \E i \in 1..Len(lst) : lst[i] = x THEN lst ELSE Append(lst, x)

\* create_moc_task without the lookup in moc_cache: a task per call
create_moc_task_nocache(S, t, h_node, m_node) ==
    LET tsk == <<"moc", Len(S.mocs) + 1>>
        rec == [inputs |-> <<h_node>>, outputs |-> <<m_node>>,
                env |-> t, generator |-> generator(t)]
    IN [S |-> [S EXCEPT
                 !.moc_cache = (h_node :> tsk) @@ S.moc_cache,
                 !.mocs = Append(S.mocs, rec),
                 !.hasrun = (tsk :> NOT_RUN) @@ S.hasrun,
                 !.moc_flags[t] = append_unique(S.moc_flags[t], "-i"),
                 !.gen_tasks[generator(t)] =
                     Append(S.gen_tasks[generator(t)], tsk),
                 !.outstanding = <<tsk>> \o S.outstanding,
                 !.total = S.total + 1],
        ret |-> tsk]

\* create_moc_task with outstanding.append in place of appendleft
create_moc_task_append(S, t, h_node, m_node) ==
    IF h_node \in DOMAIN S.moc_cache
    THEN [S |-> S, ret |-> S.moc_cache[h_node]]
    ELSE LET tsk == <<"moc", Len(S.mocs) + 1>>
             rec == [inputs |-> <<h_node>>, outputs |-> <<m_node>>,
                     env |-> t, generator |-> generator(t)]
         IN [S |-> [S EXCEPT
                      !.moc_cache = (h_node :> tsk) @@ S.moc_cache,
                      !.mocs = Append(S.mocs, rec),
                      !.hasrun = (tsk :> NOT_RUN) @@ S.hasrun,
                      !.moc_flags[t] = append_unique(S.moc_flags[t], "-i"),
                      !.gen_tasks[generator(t)] =
                          Append(S.gen_tasks[generator(t)], tsk),
                      !.outstanding = Append(S.outstanding, tsk),
                      !.total = S.total + 1],
             ret |-> tsk]

\* create_moc_task that injects the task without counting it in total
create_moc_task_nototal(S, t, h_node, m_node) ==
    IF h_node \in DOMAIN S.moc_cache
    THEN [S |-> S, ret |-> S.moc_cache[h_node]]
    ELSE LET tsk == <<"moc", Len(S.mocs) + 1>>
             rec == [inputs |-> <<h_node>>, outputs |-> <<m_node>>,
                     env |-> t, generator |-> generator(t)]
         IN [S |-> [S EXCEPT
                      !.moc_cache = (h_node :> tsk) @@ S.moc_cache,
                      !.mocs = Append(S.mocs, rec),
                      !.hasrun = (tsk :> NOT_RUN) @@ S.hasrun,
                      !.moc_flags[t] = append_unique(S.moc_flags[t], "-i"),
                      !.gen_tasks[generator(t)] =
                          Append(S.gen_tasks[generator(t)], tsk),
                      !.outstanding = <<tsk>> \o S.outstanding],
             ret |-> tsk]

\* create_moc_task that counts the task in total without injecting it
create_moc_task_noinject(S, t, h_node, m_node) ==
    IF h_node \in DOMAIN S.moc_cache
    THEN [S |-> S, ret |-> S.moc_cache[h_node]]
    ELSE LET tsk == <<"moc", Len(S.mocs) + 1>>
             rec == [inputs |-> <<h_node>>, outputs |-> <<m_node>>,
                     env |-> t, generator |-> generator(t)]
         IN [S |-> [S EXCEPT
                      !.moc_cache = (h_node :> tsk) @@ S.moc_cache,
                      !.mocs = Append(S.mocs, rec),
                      !.hasrun = (tsk :> NOT_RUN) @@ S.hasrun,
                      !.moc_flags[t] = append_unique(S.moc_flags[t], "-i"),
                      !.gen_tasks[generator(t)] =
                          Append(S.gen_tasks[generator(t)], tsk),
                      !.total = S.total + 1],
             ret |-> tsk]

\* qxx.create_moc_task(self = t, h_node, m_node): [S, ret]
create_moc_task(S, t, h_node, m_node) ==
    IF h_node \in DOMAIN S.moc_cache
    THEN \* return moc_cache[h_node]: the else clause of the try is not reached
         [S |-> S, ret |-> S.moc_cache[h_node]]
    ELSE LET tsk == <<"moc", Len(S.mocs) + 1>>
             rec == [inputs |-> <<h_node>>, outputs |-> <<m_node>>,
                     env |-> t, generator |-> generator(t)]
         IN [S |-> [S EXCEPT
                      !.moc_cache = (h_node :> tsk) @@ S.moc_cache,
                      !.mocs = Append(S.mocs, rec),
                      !.hasrun = (tsk :> NOT_RUN) @@ S.hasrun,
                      !.moc_flags[t] = append_unique(S.moc_flags[t], "-i"),
                      !.gen_tasks[generator(t)] =
                          Append(S.gen_tasks[generator(t)], tsk),
                      !.outstanding = <<tsk>> \o S.outstanding,
                      !.total = S.total + 1],
             ret |-> tsk]

\* the inner loop of add_moc_tasks: x.find_node(base2 + e) for e in MOC_H, in a
\* tree holding files; looked lists the names passed to find_node
RECURSIVE find_ext_in(_, _, _, _)
find_ext_in(files, x, base2, i) ==
    IF i > Len(MOC_H) THEN [h_node |-> None, looked |-> <<>>]
    ELSE LET name == Append(base2, MOC_H[i])
             h_node == find_node_in(files, x, name)
             rest == find_ext_in(files, x, base2, i + 1)
         IN IF h_node # None
            THEN [h_node |-> h_node, looked |-> <<[dir |-> x, name |-> name]>>]
            ELSE [h_node |-> rest.h_node,
                  looked |-> <<[dir |-> x, name |-> name]>> \o rest.looked]

\* the loops of add_moc_tasks with the extensions outermost
RECURSIVE find_header_extmajor(_, _, _, _)
find_header_extmajor(files, include_nodes, base2, j) ==
    LET hit(i) == { k \in 1..Len(include_nodes) :
                      find_node_in(files, include_nodes[k],
                                   Append(base2, MOC_H[i])) # None }
        first(i) == CHOOSE k \in hit(i) : \A k2 \in hit(i) : k <= k2
        exts == { i \in 1..Len(MOC_H) : hit(i) # {} }
        e == CHOOSE i \in exts : \A i2 \in exts : i <= i2
    IN IF exts = {} THEN [h_node |-> None, looked |-> <<>>]
       ELSE [h_node |-> [dir |-> include_nodes[first(e)],
                         name |-> Append(base2, MOC_H[e])],
             looked |-> <<>>]

\* the outer loop of add_moc_tasks: for x in include_nodes
RECURSIVE find_header_in(_, _, _, _)
find_header_in(files, include_nodes, base2, j) ==
    IF j > Len(include_nodes) THEN [h_node |-> None, looked |-> <<>>]
    ELSE LET r == find_ext_in(files, include_nodes[j], base2, 1)
             rest == find_header_in(files, include_nodes, base2, j + 1)
         IN IF r.h_node # None THEN r
            ELSE [h_node |-> rest.h_node, looked |-> r.looked \o rest.looked]

\* add_moc_tasks with the header search made before the test on the prefix
resolve_in_searchfirst(files, node, includes, d) ==
    LET base2 == strip_moc(d)
        prefix == rfind_prefix(node.name)
        r == find_header_in(files, <<node.dir>> \o includes, base2, 1)
    IN IF r.h_node # None THEN r
       ELSE IF base2 = prefix THEN [h_node |-> node, looked |-> r.looked]
       ELSE r

\* the header node add_moc_tasks associates with the entry d found in the
\* source node, for a generator whose includes_nodes is includes
resolve_in(files, node, includes, d) ==
    LET base2 == strip_moc(d)
        prefix == rfind_prefix(node.name)
        include_nodes == <<node.dir>> \o includes
    IN IF base2 = prefix THEN [h_node |-> node, looked |-> <<>>]
       ELSE find_header_in(files, include_nodes, base2, 1)

\* the inner loop in the source tree of the build
find_ext(x, base2, i) == find_ext_in(Files, x, base2, i).h_node

\* the outer loop in the source tree of the build
find_header(include_nodes, base2, j) ==
    find_header_in(Files, include_nodes, base2, j).h_node

\* the header node add_moc_tasks associates with the entry d of task t
resolve(t, d) ==
    resolve_in(Files, inputs0(t), includes_nodes(generator(t)), d).h_node

\* the call at line 257, with the call recorded in S.calls
call_create_moc_task(S, t, h_node, m_node) ==
    LET r == create_moc_task(S, t, h_node, m_node)
        call == [caller |-> t, h_node |-> h_node, m_node |-> m_node,
                 hit |-> h_node \in DOMAIN S.moc_cache, ret |-> r.ret,
                 pre |-> Snap(S, t), post |-> Snap(r.S, t)]
    IN [S |-> [r.S EXCEPT !.calls = Append(S.calls, call),
                          !.resolved[t] = S.resolved[t] \cup {h_node}],
        ret |-> r.ret]

\* the for loop of add_moc_tasks passing over a name it cannot resolve
RECURSIVE add_moc_loop_skip(_, _, _, _, _, _)
add_moc_loop_skip(S, t, deps, i, moctasks, mocfiles) ==
    IF i > Len(deps) THEN [S |-> S, moctasks |-> moctasks, exc |-> <<>>]
    ELSE LET d == deps[i] IN
         IF ~endswith_moc(d) \/ d \in mocfiles \/ resolve(t, d) = None
         THEN add_moc_loop_skip(S, t, deps, i + 1, moctasks, mocfiles)
         ELSE LET h_node == resolve(t, d)
                  m_node == change_ext(h_node, "moc")
                  r == call_create_moc_task(S, t, h_node, m_node)
              IN add_moc_loop_skip(r.S, t, deps, i + 1,
                                   Append(moctasks, r.ret), mocfiles \cup {d})

\* the for loop of add_moc_tasks without the test d.endswith('.moc')
RECURSIVE add_moc_loop_nofilter(_, _, _, _, _, _)
add_moc_loop_nofilter(S, t, deps, i, moctasks, mocfiles) ==
    IF i > Len(deps) THEN [S |-> S, moctasks |-> moctasks, exc |-> <<>>]
    ELSE LET d == deps[i] IN
         IF d \in mocfiles
         THEN add_moc_loop_nofilter(S, t, deps, i + 1, moctasks, mocfiles)
         ELSE LET h_node == resolve(t, d) IN
              IF h_node = None
              THEN [S |-> S, moctasks |-> moctasks,
                    exc |-> << [task |-> t, d |-> d] >>]
              ELSE LET m_node == change_ext(h_node, "moc")
                       r == call_create_moc_task(S, t, h_node, m_node)
                   IN add_moc_loop_nofilter(r.S, t, deps, i + 1,
                                            Append(moctasks, r.ret),
                                            mocfiles \cup {d})

\* the for loop of add_moc_tasks over bld.raw_deps.get(self.uid(), []):
\* [S, moctasks, exc], exc being <<>> or the WafError raised
RECURSIVE add_moc_loop(_, _, _, _, _, _)
add_moc_loop(S, t, deps, i, moctasks, mocfiles) ==
    IF i > Len(deps) THEN [S |-> S, moctasks |-> moctasks, exc |-> <<>>]
    ELSE LET d == deps[i] IN
         IF ~endswith_moc(d)
         THEN add_moc_loop(S, t, deps, i + 1, moctasks, mocfiles)
         ELSE IF d \in mocfiles
         THEN add_moc_loop(S, t, deps, i + 1, moctasks, mocfiles)
         ELSE LET h_node == resolve(t, d) IN
              IF h_node = None
              THEN [S |-> S, moctasks |-> moctasks,
                    exc |-> << [task |-> t, d |-> d] >>]
              ELSE LET m_node == change_ext(h_node, "moc")
                       r == call_create_moc_task(S, t, h_node, m_node)
                   IN add_moc_loop(r.S, t, deps, i + 1,
                                   Append(moctasks, r.ret), mocfiles \cup {d})

\* lines 209-217 of add_moc_tasks: self.signature() either raises KeyError,
\* leaving no cache_sig, or sets cache_sig, which is then deleted
sign_and_discard(S, t, keyerror) ==
    IF keyerror /\ ~S.cache_sig[t]
    THEN S
    ELSE [S EXCEPT !.cache_sig[t] = FALSE]

\* add_moc_tasks without the final self.moc_done = 1
add_moc_tasks_nomark(S, t, deps, keyerror) ==
    LET S1 == sign_and_discard([S EXCEPT !.scans[t] = S.scans[t] + 1],
                               t, keyerror)
        r == add_moc_loop(S1, t, deps, 1, <<>>, {})
    IN IF r.exc # <<>>
       THEN [S |-> r.S, exc |-> r.exc]
       ELSE [S |-> [r.S EXCEPT
                      !.run_after[t] = S.run_after[t] \cup
                          { r.moctasks[k] : k \in 1..Len(r.moctasks) }],
             exc |-> <<>>]

\* add_moc_tasks without self.run_after.update(set(moctasks))
add_moc_tasks_norunafter(S, t, deps, keyerror) ==
    LET S1 == sign_and_discard([S EXCEPT !.scans[t] = S.scans[t] + 1],
                               t, keyerror)
        r == add_moc_loop(S1, t, deps, 1, <<>>, {})
    IN IF r.exc # <<>>
       THEN [S |-> r.S, exc |-> r.exc]
       ELSE [S |-> [r.S EXCEPT !.moc_done[t] = 1], exc |-> <<>>]

\* qxx.add_moc_tasks(self = t): [S, exc]
add_moc_tasks(S, t, deps, keyerror) ==
    LET S1 == sign_and_discard([S EXCEPT !.scans[t] = S.scans[t] + 1],
                               t, keyerror)
        r == add_moc_loop(S1, t, deps, 1, <<>>, {})
    IN IF r.exc # <<>>
       THEN [S |-> r.S, exc |-> r.exc]
       ELSE [S |-> [r.S EXCEPT
                      !.run_after[t] = S.run_after[t] \cup
                          { r.moctasks[k] : k \in 1..Len(r.moctasks) },
                      !.moc_done[t] = 1],
             exc |-> <<>>]

\* Task.Task.runnable_status(self = t): ASK_LATER while a task of run_after
\* has not run, otherwise the signature is computed and compared; sig_verdict
\* is the outcome of that comparison
Task_runnable_status(S, t, sig_verdict) ==
    IF \E u \in S.run_after[t] : S.hasrun[u] = NOT_RUN
    THEN [S |-> S, ret |-> ASK_LATER, exc |-> <<>>]
    ELSE [S |-> [S EXCEPT !.cache_sig[t] = TRUE], ret |-> sig_verdict,
          exc |-> <<>>]

\* runnable_status answering after add_moc_tasks without asking the base class
runnable_status_nodelegate(S, t, deps, keyerror, sig_verdict) ==
    IF S.moc_done[t] = 1
    THEN Task_runnable_status(S, t, sig_verdict)
    ELSE IF \E u \in S.run_after[t] : S.hasrun[u] = NOT_RUN
    THEN [S |-> S, ret |-> ASK_LATER, exc |-> <<>>]
    ELSE LET a == add_moc_tasks(S, t, deps, keyerror)
         IN IF a.exc # <<>>
            THEN [S |-> a.S, ret |-> "raised", exc |-> a.exc]
            ELSE [S |-> [a.S EXCEPT !.cache_sig[t] = TRUE],
                  ret |-> sig_verdict, exc |-> <<>>]

\* runnable_status without the loop over run_after before add_moc_tasks
runnable_status_eager(S, t, deps, keyerror, sig_verdict) ==
    IF S.moc_done[t] = 1
    THEN Task_runnable_status(S, t, sig_verdict)
    ELSE LET a == add_moc_tasks(S, t, deps, keyerror)
         IN IF a.exc # <<>>
            THEN [S |-> a.S, ret |-> "raised", exc |-> a.exc]
            ELSE Task_runnable_status(a.S, t, sig_verdict)

\* qxx.runnable_status(self = t): [S, ret, exc]
runnable_status(S, t, deps, keyerror, sig_verdict) ==
    IF S.moc_done[t] = 1
    THEN Task_runnable_status(S, t, sig_verdict)
    ELSE IF \E u \in S.run_after[t] : S.hasrun[u] = NOT_RUN
    THEN [S |-> S, ret |-> ASK_LATER, exc |-> <<>>]
    ELSE LET a == add_moc_tasks(S, t, deps, keyerror)
         IN IF a.exc # <<>>
            THEN [S |-> a.S, ret |-> "raised", exc |-> a.exc]
            ELSE Task_runnable_status(a.S, t, sig_verdict)


\* ------------------------------------------------------------ the producer

NoCall == [kind |-> "none"]

\* the tasks and generators before the producer starts
Idle ==
    /\ moc_cache = <<>>
    /\ mocs = <<>>
    /\ outstanding = << UiTask, <<"qxx", 1>>, <<"qxx", 2>>, <<"qxx", 3>> >>
    /\ total = 4
    /\ gen_tasks = [g \in Generators |->
                      IF g = "g1" THEN << UiTask, <<"qxx", 1>>, <<"qxx", 2>> >>
                      ELSE << <<"qxx", 3>> >>]
    /\ run_after = [t \in QXX |-> {UiTask}]
    /\ moc_done = [t \in QXX |-> 0]
    /\ cache_sig = [t \in QXX |-> FALSE]
    /\ moc_flags = [t \in QXX |-> <<>>]
    /\ hasrun = [x \in QXX \cup {UiTask} |-> NOT_RUN]
    /\ frozen = <<>>
    /\ running = {}
    /\ error = <<>>
    /\ scans = [t \in QXX |-> 0]
    /\ resolved = [t \in QXX |-> {}]

\* the build before the producer starts, whatever the scanner found
InitBuild == Idle /\ lastq = NoCall

Init ==
    /\ raw_deps \in { f \in [QXX -> RawDeps] :
                        \A t \in QXX : f[t] \in RawDepsOf(t) }
    /\ InitBuild

\* the variables written back from the record a method returns
Store(S) ==
    /\ moc_cache' = S.moc_cache
    /\ mocs' = S.mocs
    /\ total' = S.total
    /\ gen_tasks' = S.gen_tasks
    /\ run_after' = S.run_after
    /\ moc_done' = S.moc_done
    /\ cache_sig' = S.cache_sig
    /\ moc_flags' = S.moc_flags
    /\ scans' = S.scans
    /\ resolved' = S.resolved

\* the producer takes the next outstanding task, a qxx task, and asks its
\* runnable_status: ASK_LATER postpones it, RUN_ME hands it to a consumer,
\* SKIP_ME marks it skipped, an exception stops the build
PollQxx ==
    /\ error = <<>>
    /\ outstanding # <<>>
    /\ Head(outstanding) \in QXX
    /\ LET t == Head(outstanding)
           S0 == [State EXCEPT !.outstanding = Tail(outstanding)]
       IN \E keyerror \in BOOLEAN, sig_verdict \in {RUN_ME, SKIP_ME} :
            \E r \in { runnable_status(S0, t, raw_deps[t], keyerror, sig_verdict) } :
               /\ Store(r.S)
               /\ outstanding' = r.S.outstanding
               /\ error' = r.exc
               /\ frozen' = IF r.ret = ASK_LATER THEN Append(frozen, t)
                            ELSE frozen
               /\ running' = IF r.ret = RUN_ME THEN running \cup {t}
                             ELSE running
               /\ hasrun' = IF r.ret = SKIP_ME
                            THEN [r.S.hasrun EXCEPT ![t] = SKIPPED]
                            ELSE r.S.hasrun
               /\ lastq' = [kind |-> "query", task |-> t, ret |-> r.ret,
                            pre |-> Snap(S0, t), post |-> Snap(r.S, t),
                            calls |-> r.S.calls]
    /\ UNCHANGED raw_deps

\* the producer takes the next outstanding task, a moc or ui5 task: it waits
\* for nothing, so it is run or skipped at once
StartTask ==
    /\ error = <<>>
    /\ outstanding # <<>>
    /\ Head(outstanding) \notin QXX
    /\ LET x == Head(outstanding)
       IN \E sig_verdict \in {RUN_ME, SKIP_ME} :
            /\ running' = IF sig_verdict = RUN_ME THEN running \cup {x}
                          ELSE running
            /\ hasrun' = IF sig_verdict = SKIP_ME
                         THEN [hasrun EXCEPT ![x] = SKIPPED]
                         ELSE hasrun
    /\ outstanding' = Tail(outstanding)
    /\ lastq' = NoCall
    /\ UNCHANGED << raw_deps, moc_cache, mocs, total, gen_tasks, run_after,
                    moc_done, cache_sig, moc_flags, frozen, error, scans, resolved >>

\* a consumer finishes the task x
Complete(x) ==
    /\ error = <<>>
    /\ x \in running
    /\ running' = running \ {x}
    /\ hasrun' = [hasrun EXCEPT ![x] = SUCCESS]
    /\ lastq' = NoCall
    /\ UNCHANGED << raw_deps, moc_cache, mocs, outstanding, total, gen_tasks,
                    run_after, moc_done, cache_sig, moc_flags, frozen, error,
                    scans, resolved >>

\* nothing is outstanding: the postponed tasks are asked again
Refill ==
    /\ error = <<>>
    /\ outstanding = <<>>
    /\ frozen # <<>>
    /\ outstanding' = frozen
    /\ frozen' = <<>>
    /\ lastq' = NoCall
    /\ UNCHANGED << raw_deps, moc_cache, mocs, total, gen_tasks, run_after,
                    moc_done, cache_sig, moc_flags, hasrun, running, error,
                    scans, resolved >>

Next ==
    \/ PollQxx
    \/ StartTask
    \/ \E x \in DOMAIN hasrun : Complete(x)
    \/ Refill

Spec == Init /\ [][Next]_vars

\* a direct call t.create_moc_task(h_node, h_node.change_ext('.moc')) of the
\* method, for a header the scan of t can resolve
DirectCreate(t, h_node) ==
    /\ error = <<>>
    /\ \E r \in { call_create_moc_task(State, t, h_node,
                                        change_ext(h_node, "moc")) } :
          /\ Store(r.S)
          /\ outstanding' = r.S.outstanding
          /\ hasrun' = r.S.hasrun
          /\ lastq' = [kind |-> "call", task |-> t, ret |-> r.ret,
                       pre |-> Snap(State, t), post |-> Snap(r.S, t),
                       calls |-> r.S.calls]
    /\ UNCHANGED << raw_deps, frozen, running, error >>

\* the header nodes the scan of t may pass to create_moc_task
Resolvable(t) ==
    { resolve(t, raw_deps[t][i]) :
        i \in { j \in 1..Len(raw_deps[t]) : endswith_moc(raw_deps[t][j]) } }
    \ {None}

NextApi ==
    \/ Next
    \/ \E t \in QXX : \E h_node \in Resolvable(t) : DirectCreate(t, h_node)

\* one build: bar.cpp, foo.cpp and qux.cpp each include foo.moc
InitApi ==
    /\ Init
    /\ raw_deps[<<"qxx", 1>>] = << <<"foo", "moc">> >>
    /\ raw_deps[<<"qxx", 2>>] = << <<"foo", "moc">> >>

\* that build, with create_moc_task also called from outside add_moc_tasks
SpecApi == InitApi /\ [][NextApi]_vars

\* --------------------------------------------------------------- helpers

\* the task t was handed to a consumer: it began its own execution
Began(t) == t \in running \/ hasrun[t] = SUCCESS

\* the moc tasks whose input is the node h
MocTasksOf(h) == { i \in 1..Len(mocs) : mocs[i].inputs = <<h>> }

\* the last step was a call of runnable_status
IsQuery == lastq.kind = "query"

\* the last call of runnable_status ran add_moc_tasks
Discovered == IsQuery /\ lastq.post.scans > lastq.pre.scans

\* the calls of create_moc_task made in the last step
LastCalls == IF lastq.kind = "none" THEN <<>> ELSE lastq.calls

\* a predecessor the task had when runnable_status was entered has not run
WasBlocked == \E u \in lastq.pre.run_after : hasrun[u] = NOT_RUN

\* the directories add_moc_tasks searches for the task t
SearchDirs(t) ==
    {inputs0(t).dir} \cup
    { includes_nodes(generator(t))[j] :
        j \in 1..Len(includes_nodes(generator(t))) }

\* d is a '.moc' name of another base than the source of t, and no header of
\* that base is in a searched directory
Unresolvable(t, d) ==
    /\ Len(d) >= 2 /\ d[Len(d)] = "moc"
    /\ SubSeq(d, 1, Len(d) - 1) # SubSeq(inputs0(t).name, 1, Len(inputs0(t).name) - 1)
    /\ \A x \in SearchDirs(t) : \A e \in {"h", "hpp", "hxx", "hh"} :
          [dir |-> x, name |-> Append(SubSeq(d, 1, Len(d) - 1), e)] \notin Files

\* the positions of raw_deps[t] holding an unresolvable name
BadDeps(t) == { i \in 1..Len(raw_deps[t]) : Unresolvable(t, raw_deps[t][i]) }

FirstBad(t) == CHOOSE i \in BadDeps(t) : \A j \in BadDeps(t) : i <= j

\* ---------------------------------------------------------------- claims

\* C1 as stated: every header resolved from a '.moc' name by some qxx tasks
\* has exactly one moc task, created by create_moc_task, and each of those
\* qxx tasks has that task in run_after.
C1_Original ==
    \A t \in QXX : \A h \in resolved[t] :
        /\ Cardinality(MocTasksOf(h)) = 1
        /\ h \in DOMAIN moc_cache
        /\ moc_cache[h] \in run_after[t]

\* C1 as amended: every header resolved from a '.moc' name by some qxx tasks
\* has exactly one moc task, the one moc_cache holds for it, and each of those
\* qxx tasks whose add_moc_tasks returned (moc_done = 1) has it in run_after.
C1_Dedup ==
    \A t \in QXX : \A h \in resolved[t] :
        /\ Cardinality(MocTasksOf(h)) = 1
        /\ h \in DOMAIN moc_cache
        /\ moc_cache[h][1] = "moc"
        /\ moc_cache[h][2] \in MocTasksOf(h)
        /\ moc_done[t] = 1 => moc_cache[h] \in run_after[t]

\* two tasks of different generators resolved the same header
C1_Witness ==
    \E t1 \in QXX, t2 \in QXX :
        /\ generator(t1) # generator(t2)
        /\ moc_done[t1] = 1 /\ moc_done[t2] = 1
        /\ resolved[t1] \cap resolved[t2] # {}

\* C2: runnable_status of a qxx task returns RUN_ME or SKIP_ME only when every
\* task of its run_after has run, and run_after then holds the predecessors
\* the task had before the scan and every moc task the scan obtained; a qxx
\* task that began or was skipped has no predecessor that has not run.
C2_Ordering ==
    /\ \A t \in QXX :
          (Began(t) \/ hasrun[t] = SKIPPED) =>
              \A u \in run_after[t] : hasrun[u] # NOT_RUN
    /\ \A t \in QXX :
          moc_done[t] = 1 =>
              /\ UiTask \in run_after[t]
              /\ \A h \in resolved[t] :
                    h \in DOMAIN moc_cache /\ moc_cache[h] \in run_after[t]
    /\ (IsQuery /\ lastq.ret \in {RUN_ME, SKIP_ME}) =>
          /\ lastq.post.moc_done = 1
          /\ \A u \in lastq.post.run_after : hasrun[u] # NOT_RUN

\* a qxx task began after a moc task another task had created, and the ui5
\* task, had run
C2_Witness ==
    \E t \in QXX :
        /\ Began(t)
        /\ UiTask \in run_after[t]
        /\ \E u \in run_after[t] : u[1] = "moc" /\ mocs[u[2]].env # t

\* C3 as stated: no two moc tasks held in moc_cache have the same output node.
C3_Claim ==
    \A h1 \in DOMAIN moc_cache, h2 \in DOMAIN moc_cache :
        h1 # h2 =>
            /\ moc_cache[h1] # moc_cache[h2]
            /\ mocs[moc_cache[h1][2]].outputs # mocs[moc_cache[h2][2]].outputs

\* C4: runnable_status of a qxx task with moc_done = 0 and a predecessor that
\* has not run returns ASK_LATER, calls neither add_moc_tasks nor
\* create_moc_task, and leaves moc_done, run_after, cache_sig, moc_cache, the
\* moc tasks, the generators' task lists, outstanding and total as they were.
C4_Deferral ==
    (IsQuery /\ lastq.pre.moc_done = 0 /\ WasBlocked) =>
        /\ lastq.ret = ASK_LATER
        /\ lastq.calls = <<>>
        /\ lastq.post = lastq.pre
        /\ error = <<>>

\* a task was deferred before its scan while other tasks were outstanding
C4_Witness ==
    /\ IsQuery /\ lastq.pre.moc_done = 0 /\ WasBlocked
    /\ lastq.ret = ASK_LATER
    /\ lastq.pre.outstanding # <<>>
    /\ lastq.task \in { frozen[i] : i \in 1..Len(frozen) }

\* C5: add_moc_tasks runs at most once per qxx task, on the first query that
\* finds every task of run_after run; moc_done does not go back to 0; a query
\* with moc_done = 1 calls neither add_moc_tasks nor create_moc_task and leaves
\* moc_cache, the moc tasks, run_after, outstanding and total as they were.
C5_Once ==
    /\ \A t \in QXX : scans[t] <= 1 /\ (moc_done[t] = 1 => scans[t] = 1)
    /\ (IsQuery /\ lastq.pre.moc_done = 1) =>
          /\ lastq.post.moc_done = 1
          /\ lastq.calls = <<>>
          /\ lastq.post.scans = lastq.pre.scans
          /\ lastq.post.moc_cache = lastq.pre.moc_cache
          /\ lastq.post.mocs = lastq.pre.mocs
          /\ lastq.post.run_after = lastq.pre.run_after
          /\ lastq.post.outstanding = lastq.pre.outstanding
          /\ lastq.post.total = lastq.pre.total
    /\ (IsQuery /\ lastq.pre.moc_done = 0 /\ ~WasBlocked) =>
          lastq.pre.scans = 0 /\ lastq.post.scans = 1
    /\ (IsQuery /\ lastq.pre.moc_done = 0 /\ WasBlocked) =>
          lastq.post.scans = lastq.pre.scans

\* a task that had created moc tasks was asked again and told to run
C5_Witness ==
    /\ IsQuery /\ lastq.pre.moc_done = 1
    /\ lastq.ret = RUN_ME
    /\ \E i \in 1..Len(mocs) : mocs[i].env = lastq.task

\* C6 as stated: the call of runnable_status that runs add_moc_tasks and
\* obtains moc tasks, new or from the cache, returns ASK_LATER.
C6_Claim ==
    (Discovered /\ error = <<>> /\ lastq.calls # <<>>) => lastq.ret = ASK_LATER

\* C7: create_moc_task for a header that moc_cache does not hold creates one moc
\* task with inputs [h_node], outputs [m_node], the caller's env and
\* generator, stores it under h_node, appends it to the generator's tasks,
\* puts it at the front of outstanding and adds 1 to total.
C7_Miss ==
    \A i \in 1..Len(LastCalls) :
        LET c == LastCalls[i]
            g == generator(c.caller)
        IN c.h_node \notin DOMAIN c.pre.moc_cache =>
            /\ Len(c.post.mocs) = Len(c.pre.mocs) + 1
            /\ SubSeq(c.post.mocs, 1, Len(c.pre.mocs)) = c.pre.mocs
            /\ c.post.mocs[Len(c.post.mocs)] =
                  [inputs |-> <<c.h_node>>, outputs |-> <<c.m_node>>,
                   env |-> c.caller, generator |-> g]
            /\ c.ret = <<"moc", Len(c.post.mocs)>>
            /\ DOMAIN c.post.moc_cache = DOMAIN c.pre.moc_cache \cup {c.h_node}
            /\ c.post.moc_cache[c.h_node] = c.ret
            /\ \A k \in DOMAIN c.pre.moc_cache :
                  c.post.moc_cache[k] = c.pre.moc_cache[k]
            /\ c.post.gen_tasks =
                  [c.pre.gen_tasks EXCEPT ![g] = Append(c.pre.gen_tasks[g], c.ret)]
            /\ c.post.outstanding = <<c.ret>> \o c.pre.outstanding
            /\ c.post.total = c.pre.total + 1

\* a moc task was created while other tasks, a moc task among them, were
\* outstanding
C7_Witness ==
    \E i \in 1..Len(LastCalls) :
        /\ LastCalls[i].h_node \notin DOMAIN LastCalls[i].pre.moc_cache
        /\ \E j \in 1..Len(LastCalls[i].pre.outstanding) :
              LastCalls[i].pre.outstanding[j][1] = "moc"

\* C8 as stated: create_moc_task for a header that moc_cache holds returns the
\* cached task, changes neither that task nor moc_cache, outstanding or total,
\* and leaves the caller without cache_sig.
C8_Claim ==
    \A i \in 1..Len(LastCalls) :
        LET c == LastCalls[i]
        IN c.h_node \in DOMAIN c.pre.moc_cache =>
            /\ c.ret = c.pre.moc_cache[c.h_node]
            /\ c.post.mocs = c.pre.mocs
            /\ c.post.moc_cache = c.pre.moc_cache
            /\ c.post.outstanding = c.pre.outstanding
            /\ c.post.total = c.pre.total
            /\ c.post.cache_sig = FALSE

\* C9 as stated: no qxx task of a generator begins before every qxx task of
\* that generator has completed its scan (moc_done = 1).
C9_Original ==
    \A t \in QXX : Began(t) =>
        \A u \in QXX : generator(u) = generator(t) => moc_done[u] = 1

\* C9 as amended: no qxx task begins before its own scan has completed and
\* every moc task the scan obtained has run; once the scan of a task raised,
\* that task has not begun and is not run.
C9_Amended ==
    /\ \A t \in QXX : Began(t) =>
          /\ moc_done[t] = 1
          /\ \A h \in resolved[t] : hasrun[moc_cache[h]] # NOT_RUN
    /\ error # <<>> =>
          /\ ~Began(error[1].task)
          /\ moc_done[error[1].task] = 0

\* the scan of a task raised after another task of its generator had begun
C9_Witness ==
    /\ error # <<>>
    /\ \E t \in QXX :
          /\ generator(t) = generator(error[1].task)
          /\ Began(t)
          /\ resolved[t] # {}

\* C10: when add_moc_tasks of a task runs and raw_deps holds a '.moc' name of
\* another base than the source with no header in the source's directory or
\* the include directories, WafError names the first such entry, moc_done
\* stays 0, run_after is not extended and the task gets no verdict.
C10_Fatal ==
    /\ (Discovered /\ BadDeps(lastq.task) # {}) =>
          /\ error = << [task |-> lastq.task,
                         d |-> raw_deps[lastq.task][FirstBad(lastq.task)]] >>
          /\ lastq.ret \notin {RUN_ME, SKIP_ME, ASK_LATER}
          /\ lastq.post.moc_done = 0
          /\ lastq.post.run_after = lastq.pre.run_after
    /\ error # <<>> =>
          /\ Unresolvable(error[1].task, error[1].d)
          /\ moc_done[error[1].task] = 0
          /\ run_after[error[1].task] = {UiTask}
          /\ hasrun[error[1].task] = NOT_RUN
          /\ error[1].task \notin running

\* the scan raised after it had created a moc task for an earlier entry
C10_Witness ==
    /\ error # <<>>
    /\ resolved[error[1].task] # {}

\* ------------------------------------------- sources without '.moc' includes

\* names the scanner leaves in raw_deps that do not end in '.moc'
PlainNames == { <<"foo", "h">>, <<"foo", "moc", "h">> }

\* bar.cpp and foo.cpp include only such names, qux.cpp includes foo.moc
InitPlain ==
    /\ raw_deps \in { f \in [QXX -> RawDeps \cup SeqsUpTo(PlainNames, MaxDeps)] :
                        /\ f[<<"qxx", 1>>] \in SeqsUpTo(PlainNames, MaxDeps)
                        /\ f[<<"qxx", 2>>] \in SeqsUpTo(PlainNames, MaxDeps)
                        /\ f[<<"qxx", 3>>] \in RawDepsOf(<<"qxx", 3>>) }
    /\ InitBuild

SpecPlain == InitPlain /\ [][Next]_vars

\* no entry of the raw dependency list of t ends in '.moc'
NoDirective(t) ==
    \A i \in 1..Len(raw_deps[t]) :
        ~(Len(raw_deps[t][i]) >= 2 /\ raw_deps[t][i][Len(raw_deps[t][i])] = "moc")

\* C11: add_moc_tasks of a qxx task whose raw dependency list has no entry
\* ending in '.moc' calls create_moc_task for nothing, adds nothing to
\* run_after and leaves moc_cache, the moc tasks, the generators' task lists,
\* outstanding and total as they were; the query then gets the verdict of
\* Task.runnable_status, RUN_ME or SKIP_ME, since every predecessor has run.
C11_NoOp ==
    (Discovered /\ NoDirective(lastq.task)) =>
        /\ error = <<>>
        /\ lastq.calls = <<>>
        /\ lastq.post.run_after = lastq.pre.run_after
        /\ lastq.post.moc_cache = lastq.pre.moc_cache
        /\ lastq.post.mocs = lastq.pre.mocs
        /\ lastq.post.gen_tasks = lastq.pre.gen_tasks
        /\ lastq.post.outstanding = lastq.pre.outstanding
        /\ lastq.post.total = lastq.pre.total
        /\ lastq.post.moc_done = 1
        /\ lastq.ret \in {RUN_ME, SKIP_ME}
        /\ lastq.post.cache_sig

\* a task whose list holds names, none ending in '.moc', was scanned while
\* other tasks were outstanding
C11_Witness ==
    /\ Discovered /\ NoDirective(lastq.task)
    /\ Len(raw_deps[lastq.task]) = 2
    /\ lastq.pre.outstanding # <<>>

\* ------------------------------------------- one call, outside any build

\* the variables of the build, which a call made outside any build leaves alone
build_vars == << raw_deps, moc_cache, mocs, outstanding, total, gen_tasks,
                 run_after, moc_done, cache_sig, moc_flags, hasrun, frozen,
                 running, error, scans, resolved >>

\* no build is running and lastq holds the arguments of the call to come
InitCall(args) ==
    /\ raw_deps = [t \in QXX |-> <<>>]
    /\ Idle
    /\ lastq \in args

\* ------------------------------------------------- resolving one directive

\* the directories a header may be in
HeaderDirs == {"d1", "d2", "inc"}

\* the trees: any set of headers named win.* in those directories
Trees ==
    SUBSET { [dir |-> dir, name |-> <<"win", MOC_H[i]>>] :
               dir \in HeaderDirs, i \in 1..Len(MOC_H) }

\* the scanned source files: one named as the directive, two that are not
ResolveNodes ==
    { [dir |-> "d1", name |-> <<"win", "cpp">>],
      [dir |-> "d1", name |-> <<"bar", "cpp">>] }

\* the includes_nodes of the generator
ResolveIncludes == { <<>>, <<"inc">>, <<"inc", "d2">>, <<"d2", "inc">> }

ResolveArgs ==
    { [kind |-> "args", files |-> files \cup {node}, node |-> node,
       includes |-> includes, d |-> <<"win", "moc">>] :
        files \in Trees, node \in ResolveNodes, includes \in ResolveIncludes }

InitResolve == InitCall(ResolveArgs)

\* add_moc_tasks resolves the directive d found in node
Resolve ==
    /\ lastq.kind = "args"
    /\ \E r \in { resolve_in(lastq.files, lastq.node, lastq.includes, lastq.d) } :
          lastq' = [kind |-> "resolve", files |-> lastq.files,
                    node |-> lastq.node, includes |-> lastq.includes,
                    d |-> lastq.d, h_node |-> r.h_node, looked |-> r.looked]
    /\ UNCHANGED build_vars

NextResolve == Resolve

SpecResolve == InitResolve /\ [][NextResolve]_vars

\* the name of the source file without its last extension
OwnName(q) == SubSeq(q.node.name, 1, Len(q.node.name) - 1)

\* the base name X of the directive X.moc
DirectiveBase(q) == SubSeq(q.d, 1, Len(q.d) - 1)

\* C12: a directive X.moc found in a source file named X.<ext> resolves to the
\* source node itself and no header is looked up, whatever the directories hold
C12_OwnName ==
    (lastq.kind = "resolve" /\ DirectiveBase(lastq) = OwnName(lastq))
        => lastq.h_node = lastq.node /\ lastq.looked = <<>>

\* the own-name rule applied while X.h sits next to the source file and in an
\* include directory
C12_Witness ==
    /\ lastq.kind = "resolve"
    /\ DirectiveBase(lastq) = OwnName(lastq)
    /\ [dir |-> "d1", name |-> <<"win", "h">>] \in lastq.files
    /\ [dir |-> "inc", name |-> <<"win", "h">>] \in lastq.files
    /\ lastq.includes = <<"inc", "d2">>
    /\ lastq.h_node = lastq.node

\* the directories searched, in order: the one of the source, then the includes
SearchOrder(q) == <<q.node.dir>> \o q.includes

\* the positions <<directory, extension>> at which a header named X.* exists
Hits(q) ==
    { p \in (1..Len(SearchOrder(q))) \X (1..4) :
        [dir |-> SearchOrder(q)[p[1]],
         name |-> Append(DirectiveBase(q), <<"h", "hpp", "hxx", "hh">>[p[2]])]
            \in q.files }

\* C13: a directive that is not the own name resolves to the first existing
\* header, directories in the order source directory then declared includes,
\* extensions .h .hpp .hxx .hh within a directory: the earlier directory wins
C13_SearchOrder ==
    (lastq.kind = "resolve" /\ DirectiveBase(lastq) # OwnName(lastq)
                            /\ Hits(lastq) # {})
        => \E p \in Hits(lastq) :
             /\ lastq.h_node =
                  [dir |-> SearchOrder(lastq)[p[1]],
                   name |-> Append(DirectiveBase(lastq),
                                   <<"h", "hpp", "hxx", "hh">>[p[2]])]
             /\ \A p2 \in Hits(lastq) :
                  p[1] < p2[1] \/ (p[1] = p2[1] /\ p[2] <= p2[2])

\* win.hh in the first include directory wins over win.h in the second one
C13_Witness ==
    /\ lastq.kind = "resolve"
    /\ lastq.node.name = <<"bar", "cpp">>
    /\ lastq.includes = <<"d2", "inc">>
    /\ lastq.h_node = [dir |-> "d2", name |-> <<"win", "hh">>]
    /\ [dir |-> "inc", name |-> <<"win", "h">>] \in lastq.files

\* --------------------------------------------- the moc attribute of a unit

\* self.idx of each generator: both are declared in the same directory
idx(g) == IF g = "g1" THEN 0 ELSE 1

\* self.env of a generator, as the env of the tasks its create_task makes
GenEnv(g) == <<"gen", idx(g)>>

\* 'moc_%s' % s
moc_(s) == "moc_" \o s

\* 'moc_%s.%d.cpp' % (prefix, n), as dot-separated segments
moc_target(prefix, n) ==
    <<moc_(Head(prefix))>> \o Tail(prefix) \o <<ToString(n), "cpp">>

\* process_mocs, its tasks also stored in bld.moc_cache
RECURSIVE process_mocs_cached(_, _, _, _, _)
process_mocs_cached(S, g, lst, k, source) ==
    IF k > Len(lst) THEN [S |-> S, source |-> source]
    ELSE LET x == lst[k]
             target == moc_target(rfind_prefix(x.name), idx(g))
             moc_node == [dir |-> x.dir, name |-> target]
             tsk == <<"moc", Len(S.mocs) + 1>>
             rec == [inputs |-> <<x>>, outputs |-> <<moc_node>>,
                     env |-> GenEnv(g), generator |-> g]
         IN process_mocs_cached(
                [S EXCEPT !.mocs = Append(S.mocs, rec),
                          !.moc_cache = (x :> tsk) @@ S.moc_cache,
                          !.hasrun = (tsk :> NOT_RUN) @@ S.hasrun,
                          !.gen_tasks[g] = Append(S.gen_tasks[g], tsk)],
                g, lst, k + 1, Append(source, target))

\* process_mocs that hands its tasks to the producer as create_moc_task does
RECURSIVE process_mocs_inject(_, _, _, _, _)
process_mocs_inject(S, g, lst, k, source) ==
    IF k > Len(lst) THEN [S |-> S, source |-> source]
    ELSE LET x == lst[k]
             target == moc_target(rfind_prefix(x.name), idx(g))
             moc_node == [dir |-> x.dir, name |-> target]
             tsk == <<"moc", Len(S.mocs) + 1>>
             rec == [inputs |-> <<x>>, outputs |-> <<moc_node>>,
                     env |-> GenEnv(g), generator |-> g]
         IN process_mocs_inject(
                [S EXCEPT !.mocs = Append(S.mocs, rec),
                          !.hasrun = (tsk :> NOT_RUN) @@ S.hasrun,
                          !.gen_tasks[g] = Append(S.gen_tasks[g], tsk),
                          !.outstanding = <<tsk>> \o S.outstanding,
                          !.total = S.total + 1],
                g, lst, k + 1, Append(source, target))

\* process_mocs with a target name that leaves self.idx out
RECURSIVE process_mocs_noidx(_, _, _, _, _)
process_mocs_noidx(S, g, lst, k, source) ==
    IF k > Len(lst) THEN [S |-> S, source |-> source]
    ELSE LET x == lst[k]
             target == moc_target(rfind_prefix(x.name), 0)
             moc_node == [dir |-> x.dir, name |-> target]
             tsk == <<"moc", Len(S.mocs) + 1>>
             rec == [inputs |-> <<x>>, outputs |-> <<moc_node>>,
                     env |-> GenEnv(g), generator |-> g]
         IN process_mocs_noidx(
                [S EXCEPT !.mocs = Append(S.mocs, rec),
                          !.hasrun = (tsk :> NOT_RUN) @@ S.hasrun,
                          !.gen_tasks[g] = Append(S.gen_tasks[g], tsk)],
                g, lst, k + 1, Append(source, target))

\* process_mocs(self = g) from the k-th node of lst = to_nodes(self.moc), with
\* self.source so far: [S, source]
RECURSIVE process_mocs(_, _, _, _, _)
process_mocs(S, g, lst, k, source) ==
    IF k > Len(lst) THEN [S |-> S, source |-> source]
    ELSE LET x == lst[k]
             target == moc_target(rfind_prefix(x.name), idx(g))
             moc_node == [dir |-> x.dir, name |-> target]
             tsk == <<"moc", Len(S.mocs) + 1>>
             rec == [inputs |-> <<x>>, outputs |-> <<moc_node>>,
                     env |-> GenEnv(g), generator |-> g]
         IN process_mocs(
                [S EXCEPT !.mocs = Append(S.mocs, rec),
                          !.hasrun = (tsk :> NOT_RUN) @@ S.hasrun,
                          !.gen_tasks[g] = Append(S.gen_tasks[g], tsk)],
                g, lst, k + 1, Append(source, target))

\* the source attribute of each generator, as declared
source0(g) ==
    IF g = "g1" THEN << <<"bar", "cpp">>, <<"foo", "cpp">> >>
    ELSE << <<"qux", "cpp">> >>

\* the tasks process_source makes for the declared sources of each generator
source_tasks(g) ==
    IF g = "g1" THEN << UiTask, <<"qxx", 1>>, <<"qxx", 2>> >>
    ELSE << <<"qxx", 3>> >>

\* the values of the moc attribute
MocAttrs ==
    { <<>>,
      << [dir |-> "d1", name |-> <<"foo", "h">>] >>,
      << [dir |-> "inc", name |-> <<"win", "h">>],
         [dir |-> "d1", name |-> <<"foo", "h">>] >> }

\* no generator is posted yet; bar.cpp and qux.cpp include foo.moc
InitPost ==
    /\ raw_deps = [t \in QXX |->
                     IF t = <<"qxx", 2>> THEN <<>>
                     ELSE IF t = <<"qxx", 1>> THEN << <<"foo", "moc">> >>
                     ELSE << <<"foo", "h">>, <<"foo", "moc">> >>]
    /\ moc_cache = <<>>
    /\ mocs = <<>>
    /\ outstanding = <<>>
    /\ total = 0
    /\ gen_tasks = [g \in Generators |-> <<>>]
    /\ run_after = [t \in QXX |-> {UiTask}]
    /\ moc_done = [t \in QXX |-> 0]
    /\ cache_sig = [t \in QXX |-> FALSE]
    /\ moc_flags = [t \in QXX |-> <<>>]
    /\ hasrun = [x \in QXX \cup {UiTask} |-> NOT_RUN]
    /\ frozen = <<>>
    /\ running = {}
    /\ error = <<>>
    /\ scans = [t \in QXX |-> 0]
    /\ resolved = [t \in QXX |-> {}]
    /\ lastq = NoCall

\* the generator g is posted: process_mocs runs before process_source, which
\* makes the tasks of the declared sources
Post(g) ==
    /\ gen_tasks[g] = <<>>
    /\ total = 0
    /\ \E lst \in MocAttrs :
         \E r \in { process_mocs(State, g, lst, 1, source0(g)) } :
            /\ mocs' = r.S.mocs
            /\ moc_cache' = r.S.moc_cache
            /\ hasrun' = r.S.hasrun
            /\ gen_tasks' = [r.S.gen_tasks EXCEPT
                                ![g] = r.S.gen_tasks[g] \o source_tasks(g)]
            /\ outstanding' = r.S.outstanding
            /\ total' = r.S.total
            /\ lastq' = [kind |-> "post", generator |-> g, moc |-> lst,
                         source |-> r.source,
                         pre |-> [moc_cache |-> moc_cache, mocs |-> mocs,
                                  outstanding |-> outstanding, total |-> total,
                                  tasks |-> gen_tasks[g]],
                         post |-> [moc_cache |-> r.S.moc_cache,
                                   mocs |-> r.S.mocs,
                                   outstanding |-> r.S.outstanding,
                                   total |-> r.S.total,
                                   tasks |-> r.S.gen_tasks[g]]]
    /\ UNCHANGED << raw_deps, run_after, moc_done, cache_sig, moc_flags, frozen,
                    running, error, scans, resolved >>

\* every generator is posted: the producer takes their tasks
StartBuild ==
    /\ \A g \in Generators : gen_tasks[g] # <<>>
    /\ total = 0
    /\ outstanding' = gen_tasks["g1"] \o gen_tasks["g2"]
    /\ total' = Len(gen_tasks["g1"]) + Len(gen_tasks["g2"])
    /\ lastq' = NoCall
    /\ UNCHANGED << raw_deps, moc_cache, mocs, gen_tasks, run_after, moc_done,
                    cache_sig, moc_flags, hasrun, frozen, running, error,
                    scans, resolved >>

NextPost ==
    \/ \E g \in Generators : Post(g)
    \/ StartBuild
    \/ Next

\* a build from the posting of its generators on
SpecPost == InitPost /\ [][NextPost]_vars

\* the moc task i was made by process_mocs
Explicit(i) == mocs[i].env[1] = "gen"

\* C14 as stated: no header is the input of two moc tasks, whichever of
\* create_moc_task and process_mocs made them.
C14_Original == \A i, j \in 1..Len(mocs) : mocs[i].inputs = mocs[j].inputs => i = j

\* C14 as amended: no header is the input of two moc tasks made by
\* create_moc_task, and moc_cache holds those only; process_mocs makes one
\* more moc task for each header a generator lists, whatever moc_cache holds
\* and whatever the other generators list.
C14_PerPath ==
    /\ \A i, j \in 1..Len(mocs) :
          (i # j /\ mocs[i].inputs = mocs[j].inputs) =>
              /\ Explicit(i) \/ Explicit(j)
              /\ mocs[i].generator # mocs[j].generator \/ ~Explicit(i) \/ ~Explicit(j)
    /\ \A h \in DOMAIN moc_cache : ~Explicit(moc_cache[h][2])
    /\ \A g \in Generators : gen_tasks[g] # <<>> =>
          \A i \in 1..Len(gen_tasks[g]) :
              (gen_tasks[g][i][1] = "moc" /\ Explicit(gen_tasks[g][i][2])) =>
                  mocs[gen_tasks[g][i][2]].generator = g

\* d1/foo.h is listed by both generators and found by a scan: three moc tasks
C14_Witness ==
    LET h == [dir |-> "d1", name |-> <<"foo", "h">>]
    IN /\ Cardinality(MocTasksOf(h)) = 3
       /\ h \in DOMAIN moc_cache
       /\ \E i, j \in MocTasksOf(h) :
             Explicit(i) /\ Explicit(j) /\ mocs[i].generator # mocs[j].generator

\* the name the statement gives for the header x of the unit g: first segment
\* prefix_<base>, then the index of the unit, then cpp
NameFor(prefix_foo, prefix_win, x, g) ==
    << IF x.name = <<"foo", "h">> THEN prefix_foo ELSE prefix_win,
       IF g = "g1" THEN "0" ELSE "1", "cpp" >>

\* the source list of the unit after process_mocs, with those names
SourceWith(prefix_foo, prefix_win) ==
    source0(lastq.generator) \o
        [k \in 1..Len(lastq.moc) |->
            NameFor(prefix_foo, prefix_win, lastq.moc[k], lastq.generator)]

\* C15 as stated: process_mocs appends generated_foo.n.cpp to the source list
\* of the unit with index n for the listed header foo.h.
C15_Original ==
    lastq.kind = "post" => lastq.source = SourceWith("generated_foo", "generated_win")

\* C15 as amended: process_mocs appends moc_foo.n.cpp to the source list of
\* the unit with index n for each listed header foo.h, in the order listed,
\* and declares that file next to the header as the output of the moc task;
\* two units with indices 0 and 1 listing the same header get different files.
C15_Naming ==
    /\ lastq.kind = "post" =>
          /\ lastq.source = SourceWith("moc_foo", "moc_win")
          /\ Len(lastq.post.mocs) = Len(lastq.pre.mocs) + Len(lastq.moc)
          /\ \A k \in 1..Len(lastq.moc) :
                LET rec == lastq.post.mocs[Len(lastq.pre.mocs) + k]
                IN /\ rec.inputs = <<lastq.moc[k]>>
                   /\ rec.outputs =
                        << [dir |-> lastq.moc[k].dir,
                            name |-> NameFor("moc_foo", "moc_win", lastq.moc[k],
                                             lastq.generator)] >>
    /\ \A i, j \in 1..Len(mocs) :
          (Explicit(i) /\ Explicit(j) /\ mocs[i].generator # mocs[j].generator)
              => mocs[i].outputs # mocs[j].outputs

\* the unit with index 1 lists foo.h after the unit with index 0 did
C15_Witness ==
    /\ lastq.kind = "post"
    /\ lastq.generator = "g2"
    /\ lastq.moc = << [dir |-> "d1", name |-> <<"foo", "h">>] >>
    /\ lastq.source = << <<"qux", "cpp">>, <<"moc_foo", "1", "cpp">> >>
    /\ \E i \in 1..Len(mocs) :
          /\ mocs[i].generator = "g1"
          /\ mocs[i].outputs =
                << [dir |-> "d1", name |-> <<"moc_foo", "0", "cpp">>] >>

\* ------------------------------------------------------------ XMLHandler

\* the longest document, in parser events
MaxEvents == 7

\* the element names of a manifest
ElementNames == {"file", "qresource"}

\* the chunks of text the parser may deliver
Chunks == {"a.png", "sub/", "b.png"}

\* ''.join(buf)
RECURSIVE join(_)
join(buf) == IF buf = <<>> THEN "" ELSE Head(buf) \o join(Tail(buf))

\* XMLHandler.__init__
XMLHandler == [buf |-> <<>>, files |-> <<>>]

\* startElement that keeps the text collected so far
startElement_keep(H, name) == H

\* XMLHandler.startElement(name, attrs)
startElement(H, name) ==
    IF name = "file" THEN [H EXCEPT !.buf = <<>>] ELSE H

\* XMLHandler.endElement(name)
endElement(H, name) ==
    IF name = "file" THEN [H EXCEPT !.files = Append(H.files, join(H.buf))]
    ELSE H

\* XMLHandler.characters(cars)
characters(H, cars) == [H EXCEPT !.buf = Append(H.buf, cars)]

\* a new handler, and the parser at the start of a document
InitXml ==
    InitCall({ [kind |-> "xml", events |-> <<>>, stack |-> <<>>,
                handler |-> XMLHandler] })

\* the parser meets a start tag: file elements are not nested in one another
StartElement(name) ==
    /\ lastq.kind = "xml"
    /\ Len(lastq.events) < MaxEvents
    /\ name = "file" => \A i \in 1..Len(lastq.stack) : lastq.stack[i] # "file"
    /\ lastq' = [lastq EXCEPT
                   !.events = Append(@, [type |-> "start", arg |-> name]),
                   !.stack = <<name>> \o @,
                   !.handler = startElement(@, name)]
    /\ UNCHANGED build_vars

\* the parser meets the end tag of the innermost open element
EndElement ==
    /\ lastq.kind = "xml"
    /\ Len(lastq.events) < MaxEvents
    /\ lastq.stack # <<>>
    /\ lastq' = [lastq EXCEPT
                   !.events = Append(@, [type |-> "end", arg |-> Head(lastq.stack)]),
                   !.stack = Tail(@),
                   !.handler = endElement(@, Head(lastq.stack))]
    /\ UNCHANGED build_vars

\* the parser delivers a chunk of text
Characters(cars) ==
    /\ lastq.kind = "xml"
    /\ Len(lastq.events) < MaxEvents
    /\ lastq' = [lastq EXCEPT
                   !.events = Append(@, [type |-> "chars", arg |-> cars]),
                   !.handler = characters(@, cars)]
    /\ UNCHANGED build_vars

NextXml ==
    \/ \E name \in ElementNames : StartElement(name)
    \/ EndElement
    \/ \E cars \in Chunks : Characters(cars)

SpecXml == InitXml /\ [][NextXml]_vars

\* the positions of the end tags of file elements
FileEnds(ev) == { e \in 1..Len(ev) : ev[e] = [type |-> "end", arg |-> "file"] }

\* the position of the start tag of the file element that ends at e
FileStart(ev, e) ==
    CHOOSE s \in 1..e :
        /\ ev[s] = [type |-> "start", arg |-> "file"]
        /\ \A s2 \in (s + 1)..e : ev[s2] # [type |-> "start", arg |-> "file"]

\* the text delivered at the positions s..e
RECURSIVE TextIn(_, _, _)
TextIn(ev, s, e) ==
    IF s > e THEN ""
    ELSE (IF ev[s].type = "chars" THEN ev[s].arg ELSE "") \o TextIn(ev, s + 1, e)

\* one string per ended file element, in document order
FileTexts(ev) ==
    [k \in 1..Cardinality(FileEnds(ev)) |->
        LET e == CHOOSE x \in FileEnds(ev) :
                     Cardinality({ y \in FileEnds(ev) : y <= x }) = k
        IN TextIn(ev, FileStart(ev, e), e)]

\* C16: after any events of a well-formed manifest whose file elements are not
\* nested in one another, files holds, in document order, one string per
\* ended file element: the chunks delivered between its start and its end,
\* concatenated; text outside file elements and other tags add nothing
C16_Files ==
    lastq.kind = "xml" => lastq.handler.files = FileTexts(lastq.events)

\* <file>a.png</file><file>sub/b.png</file>, the second name in two chunks
C16_Witness ==
    /\ lastq.kind = "xml"
    /\ lastq.stack = <<>>
    /\ Len(lastq.events) = 7
    /\ lastq.handler.files = <<"a.png", "sub/b.png">>

\* ---------------------------------------------------------------- rcc.scan

\* parser.parse(fi): the handler after the events of a document
RECURSIVE parse(_, _)
parse(H, events) ==
    IF events = <<>> THEN H
    ELSE LET ev == Head(events)
         IN parse(CASE ev.type = "start" -> startElement(H, ev.arg)
                    [] ev.type = "end" -> endElement(H, ev.arg)
                    [] ev.type = "chars" -> characters(H, ev.arg),
                  Tail(events))

\* the events of <file>name</file>
FileElement(name) ==
    << [type |-> "start", arg |-> "file"], [type |-> "chars", arg |-> name],
       [type |-> "end", arg |-> "file"] >>

\* the events of <qresource>content</qresource>
QResource(content) ==
    << [type |-> "start", arg |-> "qresource"] >> \o content \o
    << [type |-> "end", arg |-> "qresource"] >>

\* the manifests rcc.scan may be given
Manifests ==
    { QResource(<<>>),
      QResource(FileElement("a.png")),
      QResource(FileElement("sub/b.png") \o FileElement("a.png")),
      QResource(FileElement("a.png") \o FileElement("c.png")) }

\* the names a manifest may list
ResourceNames == {"a.png", "sub/b.png", "c.png"}

\* the i-th and later names of files, split into those root.find_resource
\* finds and the others
RECURSIVE split_files(_, _, _, _, _)
split_files(files, i, resources, nodes, names) ==
    IF i > Len(files) THEN <<nodes, names>>
    ELSE IF files[i] \in resources
         THEN split_files(files, i + 1, resources, Append(nodes, files[i]), names)
         ELSE split_files(files, i + 1, resources, nodes, Append(names, files[i]))

\* rcc.scan that parses whether or not xml.sax was imported
scan_unguarded(has_xml, disk, events, resources) ==
    IF disk = "missing"
    THEN [ret |-> <<>>, log |-> <<>>, opened |-> FALSE, exc |-> "IOError"]
    ELSE IF disk = "malformed"
    THEN [ret |-> <<>>, log |-> <<>>, opened |-> TRUE,
          exc |-> "SAXParseException"]
    ELSE [ret |-> split_files(parse(XMLHandler, events).files, 1, resources,
                              <<>>, <<>>),
          log |-> <<>>, opened |-> TRUE, exc |-> "none"]

\* rcc.scan(self): has_xml is the module flag set by the import of xml.sax,
\* disk says whether the manifest is missing, malformed or holds events
scan(has_xml, disk, events, resources) ==
    IF ~has_xml
    THEN [ret |-> << <<>>, <<>> >>,
          log |-> << [level |-> "error",
                      msg |-> "No xml.sax support was found, rcc dependencies will be incomplete!"] >>,
          opened |-> FALSE, exc |-> "none"]
    ELSE IF disk = "missing"
    THEN [ret |-> <<>>, log |-> <<>>, opened |-> FALSE, exc |-> "IOError"]
    ELSE IF disk = "malformed"
    THEN [ret |-> <<>>, log |-> <<>>, opened |-> TRUE,
          exc |-> "SAXParseException"]
    ELSE [ret |-> split_files(parse(XMLHandler, events).files, 1, resources,
                              <<>>, <<>>),
          log |-> <<>>, opened |-> TRUE, exc |-> "none"]

ScanArgs ==
    { [kind |-> "args", has_xml |-> has_xml, disk |-> disk, events |-> events,
       resources |-> resources] :
        has_xml \in BOOLEAN, disk \in {"missing", "malformed", "ok"},
        events \in Manifests, resources \in SUBSET ResourceNames }

InitScan == InitCall(ScanArgs)

\* the build asks the rcc task for its dependencies
Scan ==
    /\ lastq.kind = "args"
    /\ \E r \in { scan(lastq.has_xml, lastq.disk, lastq.events, lastq.resources) } :
          lastq' = [kind |-> "scan", has_xml |-> lastq.has_xml,
                    disk |-> lastq.disk, events |-> lastq.events,
                    resources |-> lastq.resources, ret |-> r.ret,
                    log |-> r.log, opened |-> r.opened, exc |-> r.exc]
    /\ UNCHANGED build_vars

NextScan == Scan

SpecScan == InitScan /\ [][NextScan]_vars

\* C17: without xml.sax, rcc.scan does not open or parse the manifest, logs
\* that the rcc dependencies will be incomplete, raises nothing and returns
\* ([], []), whatever the manifest is
C17_NoXml ==
    (lastq.kind = "scan" /\ ~lastq.has_xml) =>
        /\ lastq.ret = << <<>>, <<>> >>
        /\ lastq.exc = "none"
        /\ ~lastq.opened
        /\ Len(lastq.log) = 1
        /\ lastq.log[1].msg =
             "No xml.sax support was found, rcc dependencies will be incomplete!"

\* without xml.sax, a manifest on disk that lists two existing files
C17_Witness ==
    /\ lastq.kind = "scan"
    /\ ~lastq.has_xml
    /\ lastq.disk = "ok"
    /\ lastq.events = QResource(FileElement("sub/b.png") \o FileElement("a.png"))
    /\ lastq.resources = {"a.png", "sub/b.png"}
    /\ lastq.ret = << <<>>, <<>> >>

\* -------------------------------------------------------------- qm2rcc.run

\* the longest list of inputs of a qm2rcc task
MaxInputs == 3

\* the .qm nodes a qm2rcc task may be given
QmNodes ==
    { [dir |-> <<"build">>, name |-> "x.qm"],
      [dir |-> <<"build">>, name |-> "y.qm"],
      [dir |-> <<"build", "sub">>, name |-> "z.qm"],
      [dir |-> <<"src">>, name |-> "w.qm"] }

\* the directories the output of a qm2rcc task may be in
OutputParents == { <<"build">>, <<"build", "sub">> }

\* the number of leading directories two paths share
RECURSIVE common(_, _)
common(a, b) ==
    IF a = <<>> \/ b = <<>> \/ Head(a) # Head(b) THEN 0
    ELSE 1 + common(Tail(a), Tail(b))

\* os.sep.join(lst)
RECURSIVE sep_join(_)
sep_join(lst) ==
    IF Len(lst) = 1 THEN Head(lst) ELSE Head(lst) \o "/" \o sep_join(Tail(lst))

\* Node.path_from(parent): the path of the node k relative to the directory
path_from(k, parent) ==
    LET c == common(k.dir, parent)
    IN sep_join([i \in 1..(Len(parent) - c) |-> ".."]
                \o SubSeq(k.dir, c + 1, Len(k.dir)) \o <<k.name>>)

\* '\n'.join(lst)
RECURSIVE nl_join(_)
nl_join(lst) ==
    IF lst = <<>> THEN ""
    ELSE IF Len(lst) = 1 THEN Head(lst)
    ELSE Head(lst) \o "\n" \o nl_join(Tail(lst))

\* qm2rcc.run with every file line ended by a newline
run_terminated(inputs, parent) ==
    LET txt == nl_join([i \in 1..Len(inputs) |->
                   "<file>" \o path_from(inputs[i], parent) \o "</file>\n"])
    IN "<!DOCTYPE RCC><RCC version=\"1.0\">\n<qresource>\n" \o txt
           \o "\n</qresource>\n</RCC>"

\* qm2rcc.run(self): the text written to self.outputs[0], in the directory parent
run(inputs, parent) ==
    LET txt == nl_join([i \in 1..Len(inputs) |->
                   "<file>" \o path_from(inputs[i], parent) \o "</file>"])
    IN "<!DOCTYPE RCC><RCC version=\"1.0\">\n<qresource>\n" \o txt
           \o "\n</qresource>\n</RCC>"

RunArgs ==
    { [kind |-> "args", inputs |-> inputs, parent |-> parent] :
        inputs \in SeqsUpTo(QmNodes, MaxInputs), parent \in OutputParents }

InitRun == InitCall(RunArgs)

\* the qm2rcc task runs
Run ==
    /\ lastq.kind = "args"
    /\ lastq' = [kind |-> "run", inputs |-> lastq.inputs,
                 parent |-> lastq.parent,
                 code |-> run(lastq.inputs, lastq.parent)]
    /\ UNCHANGED build_vars

NextRun == Run

SpecRun == InitRun /\ [][NextRun]_vars

\* the path of each catalog relative to each output directory
RelPath(k, parent) ==
    IF parent = <<"build">>
    THEN CASE k.name = "x.qm" -> "x.qm"
           [] k.name = "y.qm" -> "y.qm"
           [] k.name = "z.qm" -> "sub/z.qm"
           [] k.name = "w.qm" -> "../src/w.qm"
    ELSE CASE k.name = "x.qm" -> "../x.qm"
           [] k.name = "y.qm" -> "../y.qm"
           [] k.name = "z.qm" -> "z.qm"
           [] k.name = "w.qm" -> "../../src/w.qm"

\* the file lines of the inputs from the i-th on, a newline between two lines
RECURSIVE FileLines(_, _, _)
FileLines(inputs, parent, i) ==
    IF i > Len(inputs) THEN ""
    ELSE (IF i > 1 THEN "\n" ELSE "")
         \o "<file>" \o RelPath(inputs[i], parent) \o "</file>"
         \o FileLines(inputs, parent, i + 1)

\* C18: qm2rcc.run writes the header line, a newline, <qresource>, a newline,
\* one <file>relative path</file> line per input in input order with a single
\* newline between two lines, a newline, </qresource>, a newline, </RCC>
C18_Manifest ==
    lastq.kind = "run" =>
        lastq.code =
            "<!DOCTYPE RCC><RCC version=\"1.0\">" \o "\n" \o "<qresource>"
            \o "\n" \o FileLines(lastq.inputs, lastq.parent, 1) \o "\n"
            \o "</qresource>" \o "\n" \o "</RCC>"

\* x.qm and y.qm next to the output, then a catalog of another directory
C18_Witness ==
    /\ lastq.kind = "run"
    /\ lastq.parent = <<"build">>
    /\ Len(lastq.inputs) = 3
    /\ lastq.inputs[1].name = "x.qm"
    /\ lastq.inputs[2].name = "y.qm"
    /\ lastq.inputs[3].name = "w.qm"
    /\ lastq.code =
         "<!DOCTYPE RCC><RCC version=\"1.0\">\n<qresource>\n<file>x.qm</file>\n<file>y.qm</file>\n<file>../src/w.qm</file>\n</qresource>\n</RCC>"

\* --------------------------------------------------------------- apply_qt5

\* the longest list of compiler flags of a unit
MaxFlags == 3

\* the flags env['CXXFLAGS'] may hold, each a sequence of characters:
\* -DX, /Ia, /D, -O2 and the one-character flag -
CxxFlags ==
    { <<"-", "D", "X">>, <<"/", "I", "a">>, <<"/", "D">>, <<"-", "O", "2">>,
      <<"-">> }

\* the translation files of the source tree
TsFiles ==
    { [dir |-> "d1", name |-> <<"fr", "ts">>],
      [dir |-> "d1", name |-> <<"de", "ts">>] }

\* the values of the lang attribute: the strings 'fr' and 'xx' (no xx.ts
\* exists) and the node of de.ts
Langs ==
    { <<>>,
      << [isstr |-> TRUE, dir |-> "", name |-> <<"fr">>] >>,
      << [isstr |-> FALSE, dir |-> "d1", name |-> <<"de", "ts">>] >>,
      << [isstr |-> TRUE, dir |-> "", name |-> <<"fr">>],
         [isstr |-> FALSE, dir |-> "d1", name |-> <<"de", "ts">>] >>,
      << [isstr |-> TRUE, dir |-> "", name |-> <<"fr">>],
         [isstr |-> TRUE, dir |-> "", name |-> <<"xx">>] >> }

\* the generator when apply_qt5 is called, after apply_link: its attributes,
\* its tasks and the flags of its env
Unit(lang, update, langname, CXXFLAGS, MOC_FLAGS) ==
    [lang |-> lang, update |-> update, langname |-> langname,
     tasks |-> << [cls |-> "ui5",
                   inputs |-> << [dir |-> "d1", name |-> <<"form", "ui">>] >>,
                   outputs |-> << [dir |-> "d1", name |-> <<"ui_form", "h">>] >>],
                  [cls |-> "qxx",
                   inputs |-> << [dir |-> "d1", name |-> <<"foo", "cpp">>] >>,
                   outputs |-> << [dir |-> "d1", name |-> <<"foo", "o">>] >>] >>,
     compiled_tasks |-> << [cls |-> "qxx",
                   inputs |-> << [dir |-> "d1", name |-> <<"foo", "cpp">>] >>,
                   outputs |-> << [dir |-> "d1", name |-> <<"foo", "o">>] >>] >>,
     link_inputs |-> << [dir |-> "d1", name |-> <<"foo", "o">>] >>,
     CXXFLAGS |-> CXXFLAGS, MOC_FLAGS |-> MOC_FLAGS, exc |-> "none"]

\* the loop over self.lang from its i-th entry: a ts2qm task for each
RECURSIVE ts2qm_loop(_, _, _)
ts2qm_loop(G, i, qmtasks) ==
    IF i > Len(G.lang) THEN [G |-> G, qmtasks |-> qmtasks]
    ELSE LET x == IF G.lang[i].isstr
                  THEN find_node_in(TsFiles, "d1", Append(G.lang[i].name, "ts"))
                  ELSE [dir |-> G.lang[i].dir, name |-> G.lang[i].name]
         IN IF x = None
            THEN \* None.change_ext
                 [G |-> [G EXCEPT !.exc = "AttributeError"], qmtasks |-> qmtasks]
            ELSE LET tsk == [cls |-> "ts2qm", inputs |-> <<x>>,
                             outputs |-> <<change_ext(x, "qm")>>]
                 IN ts2qm_loop([G EXCEPT !.tasks = Append(G.tasks, tsk)], i + 1,
                               Append(qmtasks, tsk))

\* the primary inputs of the compiled tasks, then those of the .ui tasks
cxxnodes(G) ==
    [i \in 1..Len(G.compiled_tasks) |-> G.compiled_tasks[i].inputs[1]]
    \o SelectSeq([i \in 1..Len(G.tasks) |-> G.tasks[i].inputs[1]],
                 LAMBDA n : n.name[Len(n.name)] = "ui")

\* a trans_update task for each ts2qm task
trans_update_tasks(G, qmtasks) ==
    [i \in 1..Len(qmtasks) |->
        [cls |-> "trans_update", inputs |-> cxxnodes(G),
         outputs |-> qmtasks[i].inputs]]

\* the langname branch: a qm2rcc task, then create_rcc_task on its output
embed(G, qmtasks) ==
    LET rcnode == [dir |-> "d1", name |-> <<G.langname, "qrc">>]
        t == [cls |-> "qm2rcc",
              inputs |-> [i \in 1..Len(qmtasks) |-> qmtasks[i].outputs[1]],
              outputs |-> <<rcnode>>]
        rc_cpp == [dir |-> "d1", name |-> <<G.langname \o "_rc", "cpp">>]
        rcc == [cls |-> "rcc", inputs |-> <<rcnode>>, outputs |-> <<rc_cpp>>]
        k == [cls |-> "cxx", inputs |-> <<rc_cpp>>,
              outputs |-> <<change_ext(rc_cpp, "o")>>]
    IN [G EXCEPT !.tasks = G.tasks \o <<t, rcc, k>>,
                 !.compiled_tasks = Append(G.compiled_tasks, k),
                 !.link_inputs = Append(G.link_inputs, k.outputs[1])]

\* the loop over CXXFLAGS that rewrites nothing
RECURSIVE forward_flags_asis(_, _, _)
forward_flags_asis(flags, i, lst) ==
    IF i > Len(flags) THEN lst
    ELSE LET flag == flags[i]
         IN IF Len(flag) < 2 THEN forward_flags_asis(flags, i + 1, lst)
            ELSE IF SubSeq(flag, 1, 2) \in { <<"-", "D">>, <<"-", "I">>,
                                             <<"/", "D">>, <<"/", "I">> }
                 THEN forward_flags_asis(flags, i + 1, Append(lst, flag))
                 ELSE forward_flags_asis(flags, i + 1, lst)

\* the loop over CXXFLAGS from the i-th flag, lst being the list so far
RECURSIVE forward_flags(_, _, _)
forward_flags(flags, i, lst) ==
    IF i > Len(flags) THEN lst
    ELSE LET flag == flags[i]
             f == SubSeq(flag, 1, 2)
         IN IF Len(flag) < 2 THEN forward_flags(flags, i + 1, lst)
            ELSE IF f \in { <<"-", "D">>, <<"-", "I">>, <<"/", "D">>, <<"/", "I">> }
                 THEN IF f[1] = "/"
                      THEN forward_flags(flags, i + 1,
                                         Append(lst, <<"-">> \o Tail(flag)))
                      ELSE forward_flags(flags, i + 1, Append(lst, flag))
                 ELSE forward_flags(flags, i + 1, lst)

\* apply_qt5 that does not read Options.options.trans_qt5
apply_qt5_noflag(G, trans_qt5) ==
    LET r == IF G.lang # <<>> THEN ts2qm_loop(G, 1, <<>>)
             ELSE [G |-> G, qmtasks |-> <<>>]
        G1 == IF G.lang # <<>> /\ G.update
              THEN [r.G EXCEPT !.tasks = r.G.tasks \o trans_update_tasks(r.G, r.qmtasks)]
              ELSE r.G
        G2 == IF G.lang # <<>> /\ G.langname # "" THEN embed(G1, r.qmtasks)
              ELSE G1
    IN IF r.G.exc # "none" THEN r.G
       ELSE [G2 EXCEPT !.MOC_FLAGS = G2.MOC_FLAGS \o forward_flags(G2.CXXFLAGS, 1, <<>>)]

\* apply_qt5(self = G), trans_qt5 being Options.options.trans_qt5
apply_qt5(G, trans_qt5) ==
    LET r == IF G.lang # <<>> THEN ts2qm_loop(G, 1, <<>>)
             ELSE [G |-> G, qmtasks |-> <<>>]
        G1 == IF G.lang # <<>> /\ G.update /\ trans_qt5
              THEN [r.G EXCEPT !.tasks = r.G.tasks \o trans_update_tasks(r.G, r.qmtasks)]
              ELSE r.G
        G2 == IF G.lang # <<>> /\ G.langname # "" THEN embed(G1, r.qmtasks)
              ELSE G1
    IN IF r.G.exc # "none" THEN r.G
       ELSE [G2 EXCEPT !.MOC_FLAGS = G2.MOC_FLAGS \o forward_flags(G2.CXXFLAGS, 1, <<>>)]

ApplyArgs ==
    { [kind |-> "args", trans_qt5 |-> trans_qt5,
       pre |-> Unit(lang, update, langname, CXXFLAGS, MOC_FLAGS)] :
        trans_qt5 \in BOOLEAN, lang \in Langs,
        update \in BOOLEAN, langname \in {"", "lang"},
        CXXFLAGS \in SeqsUpTo(CxxFlags, MaxFlags),
        MOC_FLAGS \in { <<>>, << <<"-", "i">> >> } }

InitApply == InitCall(ApplyArgs)

\* the generator is posted: apply_qt5 runs after apply_link
Apply ==
    /\ lastq.kind = "args"
    /\ \E G \in { apply_qt5(lastq.pre, lastq.trans_qt5) } :
          lastq' = [kind |-> "apply_qt5", trans_qt5 |-> lastq.trans_qt5,
                    pre |-> lastq.pre, post |-> G]
    /\ UNCHANGED build_vars

NextApply == Apply

SpecApply == InitApply /\ [][NextApply]_vars

\* the flag starts with one of the markers -D, -I, /D, /I
Marked(flag) ==
    /\ Len(flag) >= 2
    /\ flag[1] \in {"-", "/"}
    /\ flag[2] \in {"D", "I"}

\* the flag with a leading / replaced by -
Dashed(flag) == [i \in 1..Len(flag) |-> IF i = 1 THEN "-" ELSE flag[i]]

\* C19: apply_qt5 appends to MOC_FLAGS the compiler flags of length at least
\* 2 that begin with -D, -I, /D or /I, in their order, a leading / rewritten
\* to -, and no other flag
C19_Flags ==
    (lastq.kind = "apply_qt5" /\ lastq.post.exc = "none") =>
        LET flags == lastq.pre.CXXFLAGS
            kept == SelectSeq(flags, Marked)
        IN lastq.post.MOC_FLAGS =
               lastq.pre.MOC_FLAGS \o [i \in 1..Len(kept) |-> Dashed(kept[i])]

\* /Ia, -O2, -DX after -i: /Ia is rewritten, -O2 is dropped
C19_Witness ==
    /\ lastq.kind = "apply_qt5"
    /\ lastq.pre.CXXFLAGS =
         << <<"/", "I", "a">>, <<"-", "O", "2">>, <<"-", "D", "X">> >>
    /\ lastq.post.MOC_FLAGS =
         << <<"-", "i">>, <<"-", "I", "a">>, <<"-", "D", "X">> >>

\* the tasks apply_qt5 made
Made == SubSeq(lastq.post.tasks, Len(lastq.pre.tasks) + 1, Len(lastq.post.tasks))

\* those of the class cls
MadeOf(cls) == SelectSeq(Made, LAMBDA t : t.cls = cls)

\* C20: apply_qt5 makes one ts2qm task per declared catalog, in order, and
\* trans_update tasks only for a unit that declares catalogs and sets update
\* while the command-line flag is set; without the flag it makes none
C20_Gating ==
    lastq.kind = "apply_qt5" =>
        /\ lastq.post.exc = "none" =>
              /\ Len(MadeOf("ts2qm")) = Len(lastq.pre.lang)
              /\ \A i \in 1..Len(lastq.pre.lang) :
                    /\ MadeOf("ts2qm")[i].inputs[1].name =
                          IF lastq.pre.lang[i].isstr
                          THEN lastq.pre.lang[i].name \o <<"ts">>
                          ELSE lastq.pre.lang[i].name
                    /\ Len(MadeOf("ts2qm")[i].inputs) = 1
        /\ MadeOf("trans_update") # <<>> =>
              lastq.pre.lang # <<>> /\ lastq.pre.update /\ lastq.trans_qt5
        /\ ~lastq.trans_qt5 => MadeOf("trans_update") = <<>>

\* two catalogs and update, with the flag: two ts2qm tasks, and trans_update
C20_Witness ==
    /\ lastq.kind = "apply_qt5"
    /\ lastq.trans_qt5
    /\ lastq.pre.update
    /\ Len(lastq.pre.lang) = 2
    /\ Len(MadeOf("ts2qm")) = 2
    /\ MadeOf("trans_update") # <<>>

\* C21: process_mocs makes its moc tasks at once through create_task, one per
\* listed header, appended to the tasks of the unit, and leaves moc_cache, the
\* outstanding queue and the total of the producer as they were, whatever the
\* list of headers
C21_Bypass ==
    lastq.kind = "post" =>
        /\ lastq.post.moc_cache = lastq.pre.moc_cache
        /\ lastq.post.outstanding = lastq.pre.outstanding
        /\ lastq.post.total = lastq.pre.total
        /\ Len(lastq.post.mocs) = Len(lastq.pre.mocs) + Len(lastq.moc)
        /\ lastq.post.tasks =
             lastq.pre.tasks \o
                 [k \in 1..Len(lastq.moc) |-> <<"moc", Len(lastq.pre.mocs) + k>>]
        /\ \A k \in 1..Len(lastq.moc) :
              lastq.post.mocs[Len(lastq.pre.mocs) + k].inputs = <<lastq.moc[k]>>

\* a unit lists two headers after another unit made a moc task of its own
C21_Witness ==
    /\ lastq.kind = "post"
    /\ Len(lastq.moc) = 2
    /\ lastq.pre.mocs # <<>>
    /\ Len(lastq.post.tasks) = 2
    /\ lastq.post.moc_cache = <<>>
    /\ lastq.post.total = 0

\* how many times the task x is in the queue q
Occurrences(q, x) == Cardinality({ i \in 1..Len(q) : q[i] = x })

\* how many times the moc task x was handed to the producer: it is still
\* outstanding, or with a consumer, or it has run or was skipped
Injections(x) ==
    Occurrences(outstanding, x) + Occurrences(frozen, x)
        + (IF x \in running THEN 1 ELSE 0)
        + (IF hasrun[x] # NOT_RUN THEN 1 ELSE 0)

\* C22: whatever discoveries were made, one of them stopped by a resolution
\* error or not, the moc tasks create_moc_task made, the entries of moc_cache
\* and the increase of total since the build started are as many; each entry
\* of moc_cache is one of those tasks and each was injected exactly once
C22_Bookkeeping ==
    /\ Cardinality(DOMAIN moc_cache) = Len(mocs)
    /\ total = Cardinality(QXX \cup {UiTask}) + Len(mocs)
    /\ \A h \in DOMAIN moc_cache :
          /\ moc_cache[h][1] = "moc"
          /\ moc_cache[h][2] \in 1..Len(mocs)
          /\ mocs[moc_cache[h][2]].inputs = <<h>>
    /\ \A i \in 1..Len(mocs) : Injections(<<"moc", i>>) = 1

\* a scan made a moc task and was then stopped by the resolution error
C22_Witness ==
    /\ error # <<>>
    /\ Len(mocs) >= 1
    /\ lastq.kind = "query"
    /\ lastq.post.total = lastq.pre.total + 1
    /\ Head(outstanding) = <<"moc", Len(mocs)>>

\* ------------------------------------------------------- a fair producer

\* a build in which every '.moc' name the scanner found resolves; foo.cpp
\* includes foo.moc or nothing
InitLive ==
    /\ Init
    /\ Len(raw_deps[<<"qxx", 2>>]) <= 1
    /\ \A t \in QXX : \A i \in 1..Len(raw_deps[t]) :
          endswith_moc(raw_deps[t][i]) => resolve(t, raw_deps[t][i]) # None

\* PollQxx can be taken: the condition ENABLED <<PollQxx>>_vars
PollEnabled == error = <<>> /\ outstanding # <<>> /\ Head(outstanding) \in QXX

\* the producer keeps taking the outstanding tasks, asks the postponed ones
\* again once nothing is outstanding, and the consumers finish every task
\* handed to them; the first conjunct is WF_vars(PollQxx) written out
Fairness ==
    /\ []<>(~PollEnabled) \/ []<><<PollQxx>>_vars
    /\ WF_vars(StartTask)
    /\ WF_vars(Refill)
    /\ WF_vars(\E x \in DOMAIN hasrun : Complete(x))

SpecLive == InitLive /\ [][Next]_vars /\ Fairness

\* C23: under a fair producer, when every directive resolves and every moc
\* task completes, each qxx task eventually runs its discovery and eventually
\* gets an answer other than ASK_LATER from runnable_status
C23_NoPermanentDeferral ==
    \A t \in QXX :
        <>(moc_done[t] = 1 /\ (t \in running \/ hasrun[t] # NOT_RUN))

\* a qxx task postponed after its discovery, because the moc task it made had
\* not run, is asked again and told to run; every qxx task has its answer
C23_Witness ==
    /\ lastq.kind = "query"
    /\ lastq.pre.moc_done = 1
    /\ lastq.ret = RUN_ME
    /\ \E u \in lastq.post.run_after : u[1] = "moc"
    /\ \A t \in QXX : moc_done[t] = 1 /\ (t \in running \/ hasrun[t] # NOT_RUN)

====
